---- MODULE Spec2Model ----
(***************************************************************************)
(* holma: micro templating with schema validation and HTML escaping.       *)
(* Strings are sequences of one-character strings, JavaScript values are   *)
(* tagged records, and one holma() call is a small state machine: the      *)
(* type check and the validator invocation, the settling of the validator's*)
(* promise, and the synchronous continuation that throws SchemaError or    *)
(* runs the two replace passes.                                            *)
(***************************************************************************)
EXTENDS Integers, Sequences, FiniteSets, TLC

----------------------------------------------------------------------------
(* Bounds of the model                                                     *)

\* a template is the concatenation of at most MaxParts pieces of Pieces
MaxParts == 2
\* getNestedValue is explored on paths of at most MaxSegs segments
MaxSegs == 3
\* a template of brace groups is the concatenation of at most MaxGroups of
\* BracePieces
MaxGroups == 2

----------------------------------------------------------------------------
(* Characters and character classes of the two regular expressions         *)

Digit == {"0", "1", "2", "3", "4", "5", "6", "7", "8", "9"}
Lower == {"a", "b", "c", "d", "e", "f", "g", "h", "i", "j", "k", "l", "m",
          "n", "o", "p", "q", "r", "s", "t", "u", "v", "w", "x", "y", "z"}
Upper == {"A", "B", "C", "D", "E", "F", "G", "H", "I", "J", "K", "L", "M",
          "N", "O", "P", "Q", "R", "S", "T", "U", "V", "W", "X", "Y", "Z"}
\* [a-z$_] under the i flag
IdStart == Lower \cup Upper \cup {"$", "_"}
\* [\w\-$]
IdCont == Lower \cup Upper \cup Digit \cup {"_", "-", "$"}

----------------------------------------------------------------------------
(* JavaScript values                                                       *)
(* t: the type tag; s: the text of a string; n: the number (or 0/1 for a   *)
(* boolean); f: the own fields of an object, keyed by field name.          *)

NoFields == <<>>
Undefined == [t |-> "undefined", s |-> <<>>, n |-> 0, f |-> NoFields]
Null == [t |-> "null", s |-> <<>>, n |-> 0, f |-> NoFields]
Str(s) == [t |-> "string", s |-> s, n |-> 0, f |-> NoFields]
Num(n) == [t |-> "number", s |-> <<>>, n |-> n, f |-> NoFields]
Bool(b) == [t |-> "boolean", s |-> <<>>, n |-> IF b THEN 1 ELSE 0, f |-> NoFields]
Obj(f) == [t |-> "object", s |-> <<>>, n |-> 0, f |-> f]
\* not a value: the marker of a TypeError thrown while a value was computed
Thrown == [t |-> "TypeError", s |-> <<>>, n |-> 0, f |-> NoFields]

\* typeof value === 'object' (null has typeof 'object' too, but every use
\* below tests value == null first)
TypeofObject(v) == v.t \in {"object", "null"}

\* the decimal text of a natural number
DigitChar(d) == <<"0", "1", "2", "3", "4", "5", "6", "7", "8", "9">>[d + 1]
RECURSIVE NatToString(_)
NatToString(n) ==
  IF n < 10 THEN <<DigitChar(n)>>
  ELSE Append(NatToString(n \div 10), DigitChar(n % 10))

\* String(value)
String(v) ==
  CASE v.t = "string" -> v.s
    [] v.t = "number" -> NatToString(v.n)
    [] v.t = "boolean" -> IF v.n = 1 THEN <<"t", "r", "u", "e">>
                                      ELSE <<"f", "a", "l", "s", "e">>
    [] v.t = "null" -> <<"n", "u", "l", "l">>
    [] v.t = "undefined" -> <<"u", "n", "d", "e", "f", "i", "n", "e", "d">>
    [] v.t = "object" -> <<"[", "o", "b", "j", "e", "c", "t", " ",
                           "O", "b", "j", "e", "c", "t", "]">>

\* htmlEscape of escape-goat: & < > " ' become entities
EscapeChar(c) ==
  CASE c = "&" -> <<"&", "a", "m", "p", ";">>
    [] c = "<" -> <<"&", "l", "t", ";">>
    [] c = ">" -> <<"&", "g", "t", ";">>
    [] c = "\"" -> <<"&", "q", "u", "o", "t", ";">>
    [] c = "'" -> <<"&", "#", "3", "9", ";">>
    [] OTHER -> <<c>>

RECURSIVE htmlEscape(_)
htmlEscape(s) ==
  IF s = <<>> THEN <<>> ELSE EscapeChar(Head(s)) \o htmlEscape(Tail(s))

----------------------------------------------------------------------------
(* getNestedValue                                                          *)

\* path.split('.'): the segments between dots, empty segments kept
RECURSIVE SplitFrom(_, _, _)
SplitFrom(path, i, cur) ==
  IF i > Len(path) THEN <<cur>>
  ELSE IF path[i] = "." THEN <<cur>> \o SplitFrom(path, i + 1, <<>>)
  ELSE SplitFrom(path, i + 1, Append(cur, path[i]))

Split(path) == SplitFrom(path, 1, <<>>)

\* (value as Record<string, unknown>)[part]: the field of the data tree,
\* undefined if it has none; reading a property of null or undefined throws
GetField(value, part) ==
  IF value.t \in {"null", "undefined"} THEN Thrown
  ELSE IF part \in DOMAIN value.f THEN value.f[part]
  ELSE Undefined

\* the loop body without its value == null test
LoopBodyNoNullTest(value, part) ==
  IF TypeofObject(value) THEN [done |-> FALSE, value |-> GetField(value, part)]
  ELSE [done |-> TRUE, value |-> Undefined]

\* one iteration of the for loop: [done, value] after the body ran on part
LoopBody(value, part) ==
  IF value.t \in {"null", "undefined"} THEN [done |-> TRUE, value |-> Undefined]
  ELSE IF TypeofObject(value) THEN [done |-> FALSE, value |-> GetField(value, part)]
  ELSE [done |-> TRUE, value |-> Undefined]

\* an exception of the body leaves the loop
Leaves(r) == r.done \/ r.value = Thrown

RECURSIVE WalkParts(_, _, _)

\* the loop after the body ran: return, or go on with the next part
AfterBody(r, parts, i) ==
  IF Leaves(r) THEN r.value ELSE WalkParts(r.value, parts, i + 1)

WalkParts(value, parts, i) ==
  IF i > Len(parts) THEN value
  ELSE AfterBody(LoopBody(value, parts[i]), parts, i)

getNestedValue(obj, path) == WalkParts(obj, Split(path), 1)

----------------------------------------------------------------------------
(* The regular expressions doubleBraces and singleBraces                   *)

\* the positions at which the key group (\d+|[a-z$_][\w\-$]*(?:\.[\w\-$]*)*)
\* can end when it starts at p: every end the backtracking matcher may try.
\* [\w\-$]*(?:\.[\w\-$]*)* is any run over [\w\-$] and the dot.
\* \d[\w\-$]* in place of \d+
DigitsEndsLoose(s, p) ==
  {e \in (p + 1)..(Len(s) + 1) :
     /\ s[p] \in Digit
     /\ \A q \in (p + 1)..(e - 1) : s[q] \in IdCont}

DigitsEnds(s, p) ==
  {e \in (p + 1)..(Len(s) + 1) : \A q \in p..(e - 1) : s[q] \in Digit}

IdentEnds(s, p) ==
  {e \in (p + 1)..(Len(s) + 1) :
     /\ s[p] \in IdStart
     /\ \A q \in (p + 1)..(e - 1) : s[q] \in IdCont \cup {"."}}

KeyEnds(s, p) == DigitsEnds(s, p) \cup IdentEnds(s, p)

\* s has nb opening (closing) braces at i..i+nb-1
BracesAt(s, i, nb, c) ==
  /\ i >= 1
  /\ i + nb - 1 <= Len(s)
  /\ \A q \in i..(i + nb - 1) : s[q] = c

\* the match of the pattern with nb braces that starts exactly at i and whose
\* key can end at one of ends: the index of its last character, 0 if none
MatchEnd(opens, ends, nb) ==
  IF opens /\ ends # {} THEN (CHOOSE e \in ends : TRUE) + nb - 1 ELSE 0

MatchEndAt(s, i, nb) ==
  MatchEnd(BracesAt(s, i, nb, "{"),
           {e \in KeyEnds(s, i + nb) : BracesAt(s, e, nb, "}")}, nb)

doubleBraces(s, i) == MatchEndAt(s, i, 2)
singleBraces(s, i) == MatchEndAt(s, i, 1)

\* the number of braces of each pattern, and the pattern by that number
Braces(nb, s, i) == IF nb = 2 THEN doubleBraces(s, i) ELSE singleBraces(s, i)

\* regex.test(s) from lastIndex 0: is there a match anywhere
RegexTest(nb, s) == \E i \in 1..Len(s) : Braces(nb, s, i) # 0

\* The regular expressions are global (flag g) and so carry a lastIndex, the
\* number of characters before the place where the next exec starts.
\* regex.exec(s) from the character at i: the lastIndex it leaves, which is
\* the end of the leftmost match from there, or 0 when there is none
RECURSIVE ExecFrom(_, _, _)
ExecFrom(nb, s, i) ==
  IF i > Len(s) THEN 0
  ELSE IF Braces(nb, s, i) # 0 THEN Braces(nb, s, i)
  ELSE ExecFrom(nb, s, i + 1)

\* regex.test(s) is regex.exec(s) !== null: the lastIndex after it
TestLastIndex(nb, s, lastIndex) == ExecFrom(nb, s, lastIndex + 1)

\* a replace that scans from the lastIndex it finds, as exec does
ReplaceStartSticky(lastIndex) == lastIndex

\* s.replace(regex, f) with a global regex sets lastIndex to 0 before it scans
ReplaceStart(lastIndex) == 0

----------------------------------------------------------------------------
(* options.transform and the replace callback                              *)

\* The transform functions the calls are run with, by name:
\*   "undefined"  () => undefined
\*   "keyed"      ({ value, key }) => `${key}:${value}`
\*   "tag"        ({ value }) => typeof value === 'string' ? `<${value}>` : value
ApplyTransform(name, value, key) ==
  CASE name = "undefined" -> Undefined
    [] name = "keyed" -> Str(key \o <<":">> \o String(value))
    [] name = "tag" -> IF value.t = "string"
                       THEN Str(<<"<">> \o value.s \o <<">">>)
                       ELSE value

\* replace that leaves the placeholder whenever the value is missing
ReplaceResultNeverThrows(placeholder, key, options, value, transformed) ==
  [threw |-> FALSE,
   text |-> IF transformed = Undefined THEN placeholder ELSE String(transformed),
   placeholder |-> placeholder, key |-> key,
   called |-> options.transform # "none",
   value |-> value, transformed |-> transformed]

\* replace that returns the key for a missing value
ReplaceResultKeyOnly(placeholder, key, options, value, transformed) ==
  [threw |-> transformed = Undefined /\ ~options.ignoreMissing,
   text |-> IF transformed = Undefined THEN key ELSE String(transformed),
   placeholder |-> placeholder, key |-> key,
   called |-> options.transform # "none",
   value |-> value, transformed |-> transformed]

\* the values that !value holds of
Falsy(v) == v \in {Undefined, Null, Num(0), Bool(FALSE), Str(<<>>)}

\* replace that tests !transformed instead of transformed === undefined
ReplaceResultFalsyMissing(placeholder, key, options, value, transformed) ==
  [threw |-> Falsy(transformed) /\ ~options.ignoreMissing,
   text |-> IF Falsy(transformed) THEN placeholder ELSE String(transformed),
   placeholder |-> placeholder, key |-> key,
   called |-> options.transform # "none",
   value |-> value, transformed |-> transformed]

\* lines 78-83 of replace: threw is the MissingValueError(key), text the
\* returned string; called tells whether options.transform was invoked
ReplaceResult(placeholder, key, options, value, transformed) ==
  [threw |-> transformed = Undefined /\ ~options.ignoreMissing,
   text |-> IF transformed = Undefined THEN placeholder ELSE String(transformed),
   placeholder |-> placeholder, key |-> key,
   called |-> options.transform # "none",
   value |-> value, transformed |-> transformed]

\* a transform whose undefined return falls back to the looked up value
FallBack(returned, value) == IF returned = Undefined THEN value ELSE returned

TransformedOrValue(key, options, value) ==
  IF options.transform # "none"
  THEN FallBack(ApplyTransform(options.transform, value, key), value)
  ELSE value

\* a replace that asks the transform only about values that were found
TransformedOnlyFound(key, options, value) ==
  IF options.transform # "none" /\ value # Undefined
  THEN ApplyTransform(options.transform, value, key)
  ELSE value

\* lines 74-76 of replace
Transformed(key, options, value) ==
  IF options.transform # "none"
  THEN ApplyTransform(options.transform, value, key)
  ELSE value

ReplaceValue(placeholder, key, options, value) ==
  ReplaceResult(placeholder, key, options, value, Transformed(key, options, value))

\* replace(placeholder, key)
replace(placeholder, key, safeData, options) ==
  ReplaceValue(placeholder, key, options, getNestedValue(safeData, key))

\* a wrapper that escapes nothing
EscapedNothing(r) == r

\* htmlEscape applied to what the wrapped function returned
Escaped(r) == IF r.threw THEN r ELSE [r EXCEPT !.text = htmlEscape(@)]

\* withEscape(replace)(placeholder, key) = htmlEscape(replace(placeholder, key))
withEscape(placeholder, key, safeData, options) ==
  Escaped(replace(placeholder, key, safeData, options))

\* the callback handed to result.replace for the pattern with nb braces
Callback(nb, placeholder, key, safeData, options) ==
  IF nb = 2 THEN withEscape(placeholder, key, safeData, options)
  ELSE replace(placeholder, key, safeData, options)

\* String.prototype.replace(regex /g, callback) scanning s from index i with
\* out the text produced so far and log the callback's returns so far: the
\* leftmost match at or after i is handed to the callback, its return is
\* appended as literal text and the scan goes on after the match; an
\* exception of the callback ends the replace.
RECURSIVE ReplaceFrom(_, _, _, _, _, _, _)

\* the callback returned r for the match that ends at e
AfterCallback(s, e, nb, safeData, options, out, log, r) ==
  IF r.threw
  THEN [threw |-> TRUE, key |-> r.key, out |-> <<>>, log |-> Append(log, r)]
  ELSE ReplaceFrom(s, e + 1, nb, safeData, options, out \o r.text, Append(log, r))

\* a scan that drops the characters outside the matches
ScanAtDropping(s, i, nb, safeData, options, out, log, e) ==
  IF e = 0
  THEN ReplaceFrom(s, i + 1, nb, safeData, options, out, log)
  ELSE AfterCallback(s, e, nb, safeData, options, out, log,
                     Callback(nb, SubSeq(s, i, e), SubSeq(s, i + nb, e - nb),
                              safeData, options))

\* the pattern matches at i up to e, or does not (e = 0)
ScanAt(s, i, nb, safeData, options, out, log, e) ==
  IF e = 0
  THEN ReplaceFrom(s, i + 1, nb, safeData, options, Append(out, s[i]), log)
  ELSE AfterCallback(s, e, nb, safeData, options, out, log,
                     Callback(nb, SubSeq(s, i, e), SubSeq(s, i + nb, e - nb),
                              safeData, options))

ReplaceFrom(s, i, nb, safeData, options, out, log) ==
  IF i > Len(s) THEN [threw |-> FALSE, key |-> <<>>, out |-> out, log |-> log]
  ELSE ScanAt(s, i, nb, safeData, options, out, log, Braces(nb, s, i))

StringReplace(s, nb, safeData, options) ==
  ReplaceFrom(s, 1, nb, safeData, options, <<>>, <<>>)

\* the replace of a regex whose lastIndex was set by an earlier test
ReplaceAt(s, start, nb, safeData, options) ==
  ReplaceFrom(s, start + 1, nb, safeData, options, SubSeq(s, 1, start), <<>>)

NoReplace(s) == [threw |-> FALSE, key |-> <<>>, out |-> s, log |-> <<>>]

\* lines 96-98 after doubleBraces.test(result) left lastIndex: it returned
\* true exactly if lastIndex is not 0, and then the replace runs with the
\* same regular expression
GuardedReplace(tpl, lastIndex, safeData, options) ==
  IF lastIndex # 0
  THEN ReplaceAt(tpl, ReplaceStart(lastIndex), 2, safeData, options)
  ELSE NoReplace(tpl)

\* lines 96-98: the doubleBraces pass, skipped when the test finds no match
EscapedPass(tpl, safeData, options) ==
  GuardedReplace(tpl, TestLastIndex(2, tpl, 0), safeData, options)

\* a singleBraces pass that scans its own output once more
Relogged(log, r) == [r EXCEPT !.log = log \o @]

RescanAfter(once, safeData, options) ==
  IF once.threw THEN once
  ELSE Relogged(once.log, StringReplace(once.out, 1, safeData, options))

RawPassRescanning(first, safeData, options) ==
  IF first.threw THEN NoReplace(<<>>)
  ELSE RescanAfter(StringReplace(first.out, 1, safeData, options), safeData, options)

\* line 100: the singleBraces pass over the result of the first, unless the
\* first threw
RawPass(first, safeData, options) ==
  IF first.threw THEN NoReplace(<<>>)
  ELSE StringReplace(first.out, 1, safeData, options)

BothPasses(first, second) ==
  [threw |-> first.threw \/ second.threw,
   key |-> IF first.threw THEN first.key ELSE second.key,
   afterEscaped |-> first.out,
   out |-> second.out,
   escLog |-> first.log,
   rawLog |-> second.log]

AfterEscapedPass(first, safeData, options) ==
  BothPasses(first, RawPass(first, safeData, options))

\* lines 94-100 of holma
Substitute(tpl, safeData, options) ==
  AfterEscapedPass(EscapedPass(tpl, safeData, options), safeData, options)

----------------------------------------------------------------------------
(* The inputs the calls are run with                                       *)

RECURSIVE Flatten(_)
Flatten(parts) == IF parts = <<>> THEN <<>> ELSE Head(parts) \o Flatten(Tail(parts))

Pieces ==
  { <<"{", "a", "}">>, <<"{", "{", "a", "}", "}">>,
    <<"{", "b", "}">>, <<"{", "{", "b", "}", "}">>,
    <<"{", "a", ".", "b", "}">>,
    <<"{", "{", "{", "a", "}", "}", "}">>,
    <<"{">>, <<"}">>, <<"x">> }

PartSeqs == UNION {[1..n -> Pieces] : n \in 0..MaxParts}

A == <<"a">>
B == <<"b">>

DataSet ==
  { Obj(NoFields),
    Obj((A :> Str(<<"<">>)) @@ (B :> Str(<<"y">>))),
    Obj((A :> Str(<<"{", "b", "}">>)) @@ (B :> Str(<<"<">>))),
    Obj((A :> Str(<<"{", "b", "}">>))),
    Obj((A :> Str(<<"b">>)) @@ (B :> Str(<<"&">>))),
    Obj((A :> Str(<<"{", "{", "b", "}", "}">>)) @@ (B :> Str(<<"y">>))),
    Obj((A :> Obj((B :> Str(<<"{", "a", "}">>)))) @@ (B :> Null)),
    Obj((A :> Num(0)) @@ (B :> Bool(FALSE))),
    Obj((A :> Str(<<>>)) @@ (B :> Null)) }

Transforms == {"none", "undefined", "keyed", "tag"}

OptionsSet == [ignoreMissing : BOOLEAN, transform : Transforms]

Issue1 == [message |-> "Required", path |-> <<"a">>]
Issue2 == [message |-> "Expected string", path |-> <<"b">>]

\* a schema: whether its validate returns a promise, and the result that
\* validate produces: { value } (failing is FALSE) or { issues } (failing is
\* TRUE), the issues being an array of two, one or no issues; the value is
\* the input, or the output of a schema that strips the field a and wants b
\* a string, "d" by default
Schemas ==
  [async : BOOLEAN, failing : {FALSE}, issues : {<<>>}, output : {"input", "coerced"}]
  \cup [async : BOOLEAN, failing : {TRUE},
        issues : {<<>>, <<Issue1>>, <<Issue1, Issue2>>, <<Issue2, Issue1>>},
        output : {"input"}]

\* the output of the coercing schema for an input object
Coerced(input) ==
  Obj((B :> IF B \in DOMAIN input.f THEN Str(String(input.f[B]))
                                    ELSE Str(<<"d">>)))

Output(sch, input) == IF sch.output = "coerced" THEN Coerced(input) ELSE input

\* schema['~standard'].validate(input)
Validate(sch, input) ==
  IF sch.failing
  THEN [hasIssues |-> TRUE, issues |-> sch.issues, value |-> Undefined]
  ELSE [hasIssues |-> FALSE, issues |-> <<>>, value |-> Output(sch, input)]

----------------------------------------------------------------------------
(* One holma call                                                          *)

\* a call without the type check, and a validateSchema without the issues test
IsStringAlways(v) == TRUE
HasIssuesNever(result) == FALSE

\* a validateSchema that hands back what it was given
ValidateSchemaReturnsInput(result, input) == input

\* return result.value (line 27)
ValidateSchemaReturn(result, input) == result.value

\* typeof template === 'string' (line 64)
IsString(v) == v.t = "string"

\* if (result.issues) (line 24): true of a result that has an issues array,
\* an array being truthy whatever its length
HasIssues(result) == result.hasIssues

VARIABLES
  template,      \* the template argument, a JavaScript value
  schema,        \* the schema argument
  data,          \* the data argument
  options,       \* the options argument
  pc,            \* "start", "awaitResult" (line 22), "awaitSchema" (line 70), "done"
  validation,    \* the result validate produced, once it has settled
  validateCalls, \* how often validate was invoked
  safeData,      \* line 70
  afterEscaped,  \* result after lines 96-98
  escLog,        \* the callback's returns in the doubleBraces replace
  rawLog,        \* the callback's returns in the singleBraces replace
  outcome,       \* how the promise of holma settled
  lkObj,         \* getNestedValue on its own: the obj argument
  lkPath,        \* the path argument
  lkParts,       \* path.split('.')
  lkIndex,       \* the index in lkParts of the next part of the for loop
  lkValue,       \* the local value
  lkPc,          \* "idle", "loop", "returned"
  lkResult,      \* what getNestedValue returned
  cargs,         \* several calls on one thread: the arguments of each call
  frames,        \* the parameters and locals of each activation of holma
  cpc,           \* each call's position: "start", "awaitResult",
                 \* "awaitSchema", "tested" (after line 96), "escaped"
                 \* (after lines 96-98), "done"
  coutcome,      \* how each call's promise settled
  cvalidateCalls, \* how often each call invoked validate
  overlapped     \* a call began while another one was suspended

callVars == <<template, schema, data, options, pc, validation, validateCalls,
              safeData, afterEscaped, escLog, rawLog, outcome>>
lkVars == <<lkObj, lkPath, lkParts, lkIndex, lkValue, lkPc, lkResult>>
ccVars == <<cargs, frames, cpc, coutcome, cvalidateCalls, overlapped>>
vars == <<callVars, lkVars, ccVars>>

LookupIdle ==
  /\ lkObj = Undefined
  /\ lkPath = <<>>
  /\ lkParts = <<>>
  /\ lkIndex = 0
  /\ lkValue = Undefined
  /\ lkPc = "idle"
  /\ lkResult = Undefined

CallsIdle ==
  /\ cargs = <<>>
  /\ frames = <<>>
  /\ cpc = <<>>
  /\ coutcome = <<>>
  /\ cvalidateCalls = <<>>
  /\ overlapped = FALSE

NoValidation == [hasIssues |-> FALSE, issues |-> <<>>, value |-> Undefined]

Pending == [kind |-> "pending", value |-> <<>>, key |-> <<>>, issues |-> <<>>]
Fulfilled(str) == [kind |-> "fulfilled", value |-> str, key |-> <<>>, issues |-> <<>>]
TypeError == [kind |-> "TypeError", value |-> <<>>, key |-> <<>>, issues |-> <<>>]
SchemaError(issues) ==
  [kind |-> "SchemaError", value |-> <<>>, key |-> <<>>, issues |-> issues]
MissingValueError(key) ==
  [kind |-> "MissingValueError", value |-> <<>>, key |-> key, issues |-> <<>>]

\* templates of several pieces are rendered with the synchronous accepting
\* schema; the shorter ones with every schema
InitString ==
  \E parts \in PartSeqs :
    /\ template = Str(Flatten(parts))
    /\ schema \in IF Len(parts) <= 1 THEN Schemas
                  ELSE {[async |-> FALSE, failing |-> FALSE, issues |-> <<>>, output |-> "input"]}
    /\ data \in DataSet
    /\ options \in OptionsSet

InitNotString ==
  /\ template \in {Num(123), Undefined, Null}
  /\ schema \in Schemas
  /\ data \in DataSet
  /\ options \in OptionsSet

Init ==
  /\ InitString \/ InitNotString
  /\ pc = "start"
  /\ validation = NoValidation
  /\ validateCalls = 0
  /\ safeData = Undefined
  /\ afterEscaped = <<>>
  /\ escLog = <<>>
  /\ rawLog = <<>>
  /\ outcome = Pending
  /\ LookupIdle
  /\ CallsIdle

\* lines 64-70 up to the first suspension: the type check, then
\* validateSchema up to its await (line 22) or, for a synchronous
\* validator, to its end
Call ==
  /\ pc = "start"
  /\ IF ~IsString(template)
     THEN /\ outcome' = TypeError
          /\ pc' = "done"
          /\ UNCHANGED <<validation, validateCalls>>
     ELSE /\ validateCalls' = validateCalls + 1
          /\ outcome' = outcome
          /\ IF schema.async
             THEN pc' = "awaitResult" /\ validation' = validation
             ELSE pc' = "awaitSchema" /\ validation' = Validate(schema, data)
  /\ UNCHANGED <<template, schema, data, options, safeData, afterEscaped,
                 escLog, rawLog, lkVars, ccVars>>

\* line 22: the validator's promise fulfils and validateSchema runs to its end
ValidatorSettles ==
  /\ pc = "awaitResult"
  /\ validation' = Validate(schema, data)
  /\ pc' = "awaitSchema"
  /\ UNCHANGED <<template, schema, data, options, validateCalls, safeData,
                 afterEscaped, escLog, rawLog, outcome, lkVars, ccVars>>

\* lines 24-26 and 70: validateSchema threw, holma rejects
SchemaRejects ==
  /\ pc = "awaitSchema"
  /\ HasIssues(validation)
  /\ outcome' = SchemaError(validation.issues)
  /\ pc' = "done"
  /\ UNCHANGED <<template, schema, data, options, validation, validateCalls,
                 safeData, afterEscaped, escLog, rawLog, lkVars, ccVars>>

\* lines 27 and 70-100: validateSchema returned, holma substitutes
Render ==
  /\ pc = "awaitSchema"
  /\ ~HasIssues(validation)
  /\ safeData' = ValidateSchemaReturn(validation, data)
  /\ \E r \in {Substitute(template.s, ValidateSchemaReturn(validation, data), options)} :
        /\ afterEscaped' = r.afterEscaped
        /\ escLog' = r.escLog
        /\ rawLog' = r.rawLog
        /\ outcome' = IF r.threw THEN MissingValueError(r.key)
                                 ELSE Fulfilled(r.out)
  /\ pc' = "done"
  /\ UNCHANGED <<template, schema, data, options, validation, validateCalls,
                 lkVars, ccVars>>

Next == Call \/ ValidatorSettles \/ SchemaRejects \/ Render

Spec == Init /\ [][Next]_vars

----------------------------------------------------------------------------
(* One holma call on templates of brace groups, placeholders or not        *)

BracePieces ==
  { <<"{", "a", ".", "b", "}">>, <<"{", "1", "}">>,
    <<"{", "a", ".", "}">>, <<"{", "a", ".", ".", "b", "}">>,
    <<"{", "a", ".", "-", "b", "}">>,
    <<"{">>, <<"}">>, <<"{", "}">>,
    <<"{", " ", "a", " ", "}">>, <<"{", "{", " ", "a", " ", "}", "}">>,
    <<"{", "1", "a", "}">>, <<"{", "{", "1", "a", "}", "}">> }

BracePartSeqs == UNION {[1..n -> BracePieces] : n \in 0..MaxGroups}

\* {} and {a: {'': 'e', b: '<v>'}, '1': 'n', ' a ': 's', '1a': 't'}
BraceData ==
  { Obj(NoFields),
    Obj((A :> Obj((<<>> :> Str(<<"e">>)) @@ (B :> Str(<<"<", "v", ">">>))))
        @@ (<<"1">> :> Str(<<"n">>))
        @@ (<<" ", "a", " ">> :> Str(<<"s">>))
        @@ (<<"1", "a">> :> Str(<<"t">>))) }

BraceOptions == [ignoreMissing : BOOLEAN, transform : {"none", "keyed"}]

BraceSchemas ==
  { [async |-> FALSE, failing |-> FALSE, issues |-> <<>>, output |-> "input"],
    [async |-> TRUE, failing |-> FALSE, issues |-> <<>>, output |-> "input"],
    [async |-> FALSE, failing |-> TRUE, issues |-> <<Issue1>>, output |-> "input"] }

InitBraces ==
  /\ \E parts \in BracePartSeqs : template = Str(Flatten(parts))
  /\ schema \in BraceSchemas
  /\ data \in BraceData
  /\ options \in BraceOptions
  /\ pc = "start"
  /\ validation = NoValidation
  /\ validateCalls = 0
  /\ safeData = Undefined
  /\ afterEscaped = <<>>
  /\ escLog = <<>>
  /\ rawLog = <<>>
  /\ outcome = Pending
  /\ LookupIdle
  /\ CallsIdle

SpecBraces == InitBraces /\ [][Next]_vars

----------------------------------------------------------------------------
(* getNestedValue on its own, one loop iteration a step                    *)

\* '.' between the segments
RECURSIVE Join(_)
Join(segs) ==
  IF Len(segs) = 1 THEN segs[1] ELSE segs[1] \o <<".">> \o Join(Tail(segs))

Segments == {<<"a">>, <<"b">>, <<"0">>, <<>>}

Paths == {Join(segs) : segs \in UNION {[1..n -> Segments] : n \in 1..MaxSegs}}

Zero == <<"0">>

LookupRoots ==
  { Undefined, Null, Str(<<"a">>), Num(7), Obj(NoFields),
    Obj((A :> Obj((B :> Obj((Zero :> Str(<<"d", "e", "e", "p">>))))))),
    Obj((A :> Null) @@ (B :> Obj((A :> Undefined) @@ (B :> Bool(TRUE))))),
    Obj((Zero :> Obj((Zero :> Num(0)) @@ (A :> Str(<<"x">>))))
        @@ (A :> Obj((<<>> :> Str(<<"e">>)) @@ (B :> Num(1))))) }

CallIdle ==
  /\ template = Undefined
  /\ schema = [async |-> FALSE, failing |-> FALSE, issues |-> <<>>, output |-> "input"]
  /\ data = Undefined
  /\ options = [ignoreMissing |-> FALSE, transform |-> "none"]
  /\ pc = "idle"
  /\ validation = NoValidation
  /\ validateCalls = 0
  /\ safeData = Undefined
  /\ afterEscaped = <<>>
  /\ escLog = <<>>
  /\ rawLog = <<>>
  /\ outcome = Pending

\* lines 31-33: value = obj, the loop over path.split('.') begins
InitLookup ==
  /\ CallIdle
  /\ CallsIdle
  /\ lkObj \in LookupRoots
  /\ lkPath \in Paths
  /\ lkParts = Split(lkPath)
  /\ lkIndex = 1
  /\ lkValue = lkObj
  /\ lkPc = "loop"
  /\ lkResult = Undefined

\* lines 33-43: the loop body on the next part
LookupIterate ==
  /\ lkPc = "loop"
  /\ lkIndex <= Len(lkParts)
  /\ \E r \in {LoopBody(lkValue, lkParts[lkIndex])} :
        IF Leaves(r)
        THEN /\ lkPc' = "returned"
             /\ lkResult' = r.value
             /\ UNCHANGED <<lkValue, lkIndex>>
        ELSE /\ lkValue' = r.value
             /\ lkIndex' = lkIndex + 1
             /\ UNCHANGED <<lkPc, lkResult>>
  /\ UNCHANGED <<lkObj, lkPath, lkParts, callVars, ccVars>>

\* line 45: the loop is over
LookupReturn ==
  /\ lkPc = "loop"
  /\ lkIndex > Len(lkParts)
  /\ lkPc' = "returned"
  /\ lkResult' = lkValue
  /\ UNCHANGED <<lkObj, lkPath, lkParts, lkIndex, lkValue, callVars, ccVars>>

NextLookup == LookupIterate \/ LookupReturn

SpecLookup == InitLookup /\ [][NextLookup]_vars

----------------------------------------------------------------------------
(* Several holma calls on the one JavaScript thread: a call runs from its  *)
(* start or from the settling of the promise it awaits to its next await   *)
(* or its end, and only then another call runs.                            *)

Calls == {1, 2}

CallTemplates ==
  { Str(<<"{", "{", "a", "}", "}", "{", "b", "}">>),
    Str(<<"{", "b", "}">>),
    Num(123) }

CallData ==
  { Obj((A :> Str(<<"<">>)) @@ (B :> Str(<<"y">>))),
    Obj((A :> Str(<<"{", "b", "}">>))) }

CallOptions ==
  { [ignoreMissing |-> FALSE, transform |-> "none"],
    [ignoreMissing |-> TRUE, transform |-> "keyed"] }

CallSchemas ==
  { [async |-> FALSE, failing |-> FALSE, issues |-> <<>>, output |-> "input"],
    [async |-> TRUE, failing |-> FALSE, issues |-> <<>>, output |-> "input"],
    [async |-> TRUE, failing |-> TRUE, issues |-> <<Issue1>>, output |-> "input"] }

CallArgs ==
  [template : CallTemplates, schema : CallSchemas, data : CallData,
   options : CallOptions]

\* one activation for all the calls, as module-level variables would be
FrameShared(c) == 1

\* the activation holding the parameters and locals of call c (the
\* destructured arguments, safeData, the two regular expressions, result):
\* each call has its own
Frame(c) == c

\* an await before the last replace
SynchronousUntilEscaped(p) == p = "tested"

\* the positions inside lines 72-100, which have no await: the call that is
\* there keeps the thread
Synchronous(p) == p \in {"tested", "escaped"}

\* no call is in the middle of a synchronous run
ThreadFree == \A d \in Calls : ~Synchronous(cpc[d])

\* the activation before holma is called; lastIndex is that of doubleBraces
NoFrame ==
  [template |-> Undefined, schema |-> [async |-> FALSE, failing |-> FALSE, issues |-> <<>>, output |-> "input"],
   data |-> Undefined, options |-> [ignoreMissing |-> FALSE, transform |-> "none"],
   validation |-> NoValidation, safeData |-> Undefined, lastIndex |-> 0,
   result |-> <<>>, escLog |-> <<>>, rawLog |-> <<>>]

InitCalls ==
  /\ CallIdle
  /\ LookupIdle
  /\ cargs \in [Calls -> CallArgs]
  /\ frames = [c \in Calls |-> NoFrame]
  /\ cpc = [c \in Calls |-> "start"]
  /\ coutcome = [c \in Calls |-> Pending]
  /\ cvalidateCalls = [c \in Calls |-> 0]
  /\ overlapped = FALSE

\* the activation once holma was called with the arguments a and ran to its
\* first suspension
Entered(a) ==
  [NoFrame EXCEPT !.template = a.template, !.schema = a.schema,
                  !.data = a.data, !.options = a.options,
                  !.validation = IF IsString(a.template) /\ ~a.schema.async
                                 THEN Validate(a.schema, a.data)
                                 ELSE NoValidation]

\* lines 53-70 of call c up to its first suspension
CStart(c) ==
  /\ cpc[c] = "start"
  /\ ThreadFree
  /\ frames' = [frames EXCEPT ![Frame(c)] = Entered(cargs[c])]
  /\ overlapped' = (overlapped \/ \E d \in Calls \ {c} :
                                     cpc[d] \in {"awaitResult", "awaitSchema"})
  /\ IF ~IsString(cargs[c].template)
     THEN /\ cpc' = [cpc EXCEPT ![c] = "done"]
          /\ coutcome' = [coutcome EXCEPT ![c] = TypeError]
          /\ UNCHANGED cvalidateCalls
     ELSE /\ cpc' = [cpc EXCEPT ![c] = IF cargs[c].schema.async
                                       THEN "awaitResult" ELSE "awaitSchema"]
          /\ cvalidateCalls' = [cvalidateCalls EXCEPT ![c] = @ + 1]
          /\ UNCHANGED coutcome
  /\ UNCHANGED <<cargs, callVars, lkVars>>

Settled(fr) == [fr EXCEPT !.validation = Validate(fr.schema, fr.data)]

\* line 22 of call c: the validator's promise fulfils
CValidatorSettles(c) ==
  /\ cpc[c] = "awaitResult"
  /\ ThreadFree
  /\ frames' = [frames EXCEPT ![Frame(c)] = Settled(@)]
  /\ cpc' = [cpc EXCEPT ![c] = "awaitSchema"]
  /\ UNCHANGED <<cargs, coutcome, cvalidateCalls, overlapped, callVars, lkVars>>

\* lines 24-26 and 70 of call c
CSchemaRejects(c) ==
  /\ cpc[c] = "awaitSchema"
  /\ ThreadFree
  /\ HasIssues(frames[Frame(c)].validation)
  /\ coutcome' = [coutcome EXCEPT ![c] = SchemaError(frames[Frame(c)].validation.issues)]
  /\ cpc' = [cpc EXCEPT ![c] = "done"]
  /\ UNCHANGED <<cargs, frames, cvalidateCalls, overlapped, callVars, lkVars>>

Tested(fr) ==
  [fr EXCEPT !.safeData = ValidateSchemaReturn(fr.validation, fr.data),
             !.result = fr.template.s,
             !.lastIndex = TestLastIndex(2, fr.template.s, fr.lastIndex)]

\* lines 27, 70 and 72-96 of call c: safeData, the closures and regular
\* expressions, result = template, doubleBraces.test(result)
CTest(c) ==
  /\ cpc[c] = "awaitSchema"
  /\ ThreadFree
  /\ ~HasIssues(frames[Frame(c)].validation)
  /\ frames' = [frames EXCEPT ![Frame(c)] = Tested(@)]
  /\ cpc' = [cpc EXCEPT ![c] = "tested"]
  /\ UNCHANGED <<cargs, coutcome, cvalidateCalls, overlapped, callVars, lkVars>>

\* lines 96-98 in the activation fr: the replace if the test found a match
FirstPass(fr) == GuardedReplace(fr.result, fr.lastIndex, fr.safeData, fr.options)

AfterFirst(fr, first) ==
  IF first.threw THEN [fr EXCEPT !.escLog = first.log, !.lastIndex = 0]
  ELSE [fr EXCEPT !.escLog = first.log, !.lastIndex = 0, !.result = first.out]

\* lines 96-98 of call c
CEscaped(c) ==
  /\ cpc[c] = "tested"
  /\ \E first \in {FirstPass(frames[Frame(c)])} :
        /\ frames' = [frames EXCEPT ![Frame(c)] = AfterFirst(@, first)]
        /\ IF first.threw
           THEN /\ cpc' = [cpc EXCEPT ![c] = "done"]
                /\ coutcome' = [coutcome EXCEPT ![c] = MissingValueError(first.key)]
           ELSE /\ cpc' = [cpc EXCEPT ![c] = "escaped"]
                /\ UNCHANGED coutcome
  /\ UNCHANGED <<cargs, cvalidateCalls, overlapped, callVars, lkVars>>

SecondPass(fr) == StringReplace(fr.result, 1, fr.safeData, fr.options)

AfterSecond(fr, second) ==
  IF second.threw THEN [fr EXCEPT !.rawLog = second.log]
  ELSE [fr EXCEPT !.rawLog = second.log, !.result = second.out]

\* line 100 of call c
CRaw(c) ==
  /\ cpc[c] = "escaped"
  /\ \E second \in {SecondPass(frames[Frame(c)])} :
        /\ frames' = [frames EXCEPT ![Frame(c)] = AfterSecond(@, second)]
        /\ coutcome' = [coutcome EXCEPT ![c] =
                          IF second.threw THEN MissingValueError(second.key)
                                          ELSE Fulfilled(second.out)]
  /\ cpc' = [cpc EXCEPT ![c] = "done"]
  /\ UNCHANGED <<cargs, cvalidateCalls, overlapped, callVars, lkVars>>

NextCalls ==
  \E c \in Calls :
     \/ CStart(c)
     \/ CValidatorSettles(c)
     \/ CSchemaRejects(c)
     \/ CTest(c)
     \/ CEscaped(c)
     \/ CRaw(c)

SpecCalls == InitCalls /\ [][NextCalls]_vars

----------------------------------------------------------------------------
(* Reference definitions the properties are stated with                    *)

\* the matches of a global scan of s from i for the pattern with nb braces:
\* leftmost first, none overlapping
RECURSIVE MatchesFrom(_, _, _)
MatchesFrom(s, i, nb) ==
  IF i > Len(s) THEN <<>>
  ELSE IF Braces(nb, s, i) = 0 THEN MatchesFrom(s, i + 1, nb)
  ELSE <<[from |-> i, to |-> Braces(nb, s, i), nb |-> nb]>>
       \o MatchesFrom(s, Braces(nb, s, i) + 1, nb)

Matches(s, nb) == MatchesFrom(s, 1, nb)

\* the placeholders of a template read in one pass: at each index {{key}}
\* if there is one, else {key} if there is one
RECURSIVE PlaceholdersFrom(_, _)
PlaceholdersFrom(s, i) ==
  IF i > Len(s) THEN <<>>
  ELSE IF doubleBraces(s, i) # 0
  THEN <<[from |-> i, to |-> doubleBraces(s, i), nb |-> 2]>>
       \o PlaceholdersFrom(s, doubleBraces(s, i) + 1)
  ELSE IF singleBraces(s, i) # 0
  THEN <<[from |-> i, to |-> singleBraces(s, i), nb |-> 1]>>
       \o PlaceholdersFrom(s, singleBraces(s, i) + 1)
  ELSE PlaceholdersFrom(s, i + 1)

Placeholders(s) == PlaceholdersFrom(s, 1)

KeyOf(s, m) == SubSeq(s, m.from + m.nb, m.to - m.nb)
KeysOf(s, ms) == {KeyOf(s, ms[k]) : k \in DOMAIN ms}

\* the transformed value of a key in this call
ValueOf(key) == Transformed(key, options, getNestedValue(safeData, key))
Missing(key) == ValueOf(key) = Undefined

\* the text a placeholder with nb braces stands for
TextFor(placeholder, key, nb) ==
  IF Missing(key) THEN placeholder
  ELSE IF nb = 2 THEN htmlEscape(String(ValueOf(key)))
  ELSE String(ValueOf(key))

\* s with the matches ms[1..k] replaced by their texts, the last one first,
\* and nothing of the result read again
RECURSIVE SpliceBack(_, _, _)
SpliceBack(s, ms, k) ==
  IF k = 0 THEN s
  ELSE SpliceBack(SubSeq(s, 1, ms[k].from - 1)
                  \o TextFor(SubSeq(s, ms[k].from, ms[k].to), KeyOf(s, ms[k]), ms[k].nb)
                  \o SubSeq(s, ms[k].to + 1, Len(s)),
                  ms, k - 1)

Spliced(s, ms) == SpliceBack(s, ms, Len(ms))

\* the call got as far as substituting
Rendered == pc = "done" /\ template.t = "string" /\ ~schema.failing

AllLog == escLog \o rawLog

HasBrace(str) == \E i \in DOMAIN str : str[i] \in {"{", "}"}

----------------------------------------------------------------------------
(* Properties                                                              *)

\* C1: the text inserted for a RAW placeholder is literal. The returned
\* string is the input of the singleBraces pass with each of its matches
\* replaced by the text of its value, the callback ran once per match of that
\* input, and a MissingValueError of the pass carries the key of one of them:
\* no {x} or {{x}} inside an inserted value is looked up, whether or not x is
\* a key of the data.
C1_RawValueNeverExpanded ==
  /\ (Rendered /\ outcome.kind = "fulfilled") =>
        /\ outcome.value = Spliced(afterEscaped, Matches(afterEscaped, 1))
        /\ Len(rawLog) = Len(Matches(afterEscaped, 1))
  /\ (Rendered /\ rawLog # <<>>) =>
        /\ Len(rawLog) <= Len(Matches(afterEscaped, 1))
        /\ \A k \in DOMAIN rawLog :
             rawLog[k].key = KeyOf(afterEscaped, Matches(afterEscaped, 1)[k])

\* a RAW value with a {x} inside whose x is missing was inserted, and the
\* call with ignoreMissing unset returned
C1_Witness ==
  /\ Rendered
  /\ outcome.kind = "fulfilled"
  /\ ~options.ignoreMissing
  /\ \E k \in DOMAIN rawLog :
       /\ rawLog[k].transformed # Undefined
       /\ \E m \in DOMAIN Matches(rawLog[k].text, 1) :
            Missing(KeyOf(rawLog[k].text, Matches(rawLog[k].text, 1)[m]))

\* C2: the text inserted for an ESCAPED placeholder is never scanned by the
\* RAW pass. The returned string is the template with each of its
\* placeholders replaced once, and a MissingValueError carries the key of a
\* placeholder of the template.
C2_EscapedValueNeverRescanned ==
  /\ (Rendered /\ outcome.kind = "fulfilled") =>
        outcome.value = Spliced(template.s, Placeholders(template.s))
  /\ (Rendered /\ outcome.kind = "MissingValueError") =>
        outcome.key \in KeysOf(template.s, Placeholders(template.s))

\* C3: escaping belongs to the double braces only and comes last. Every
\* return of the singleBraces callback for a present value is
\* String(transformed value), every return of the doubleBraces callback is
\* htmlEscape(String(transformed value)), and the string after the first pass
\* is the template with its {{key}} matches replaced so.
C3_EscapeOnlyDoubleBraces ==
  Rendered =>
    /\ \A k \in DOMAIN rawLog :
         ~Missing(rawLog[k].key) => rawLog[k].text = String(ValueOf(rawLog[k].key))
    /\ \A k \in DOMAIN escLog :
         ~Missing(escLog[k].key) =>
           escLog[k].text = htmlEscape(String(ValueOf(escLog[k].key)))
    /\ (outcome.kind = "fulfilled" \/ rawLog # <<>>) =>
         afterEscaped = Spliced(template.s, Matches(template.s, 2))

\* a template with a {a} before a {{b}}, both values holding a character
\* that escaping changes
C3_Witness ==
  /\ Rendered
  /\ outcome.kind = "fulfilled"
  /\ \E i, j \in DOMAIN Placeholders(template.s) :
       /\ i < j
       /\ Placeholders(template.s)[i].nb = 1
       /\ Placeholders(template.s)[j].nb = 2
  /\ \E k \in DOMAIN escLog : escLog[k].text # String(escLog[k].transformed)
  /\ \E k \in DOMAIN rawLog : htmlEscape(rawLog[k].text) # rawLog[k].text

C5_IgnoreMissingKeepsPlaceholder ==
  (Rendered /\ options.ignoreMissing) =>
    /\ outcome.kind = "fulfilled"
    /\ \A k \in DOMAIN escLog :
         /\ escLog[k].placeholder = <<"{", "{">> \o escLog[k].key \o <<"}", "}">>
         /\ escLog[k].text = TextFor(escLog[k].placeholder, escLog[k].key, 2)
    /\ \A k \in DOMAIN rawLog :
         /\ rawLog[k].placeholder = <<"{">> \o rawLog[k].key \o <<"}">>
         /\ rawLog[k].text = TextFor(rawLog[k].placeholder, rawLog[k].key, 1)
    /\ (\A key \in KeysOf(template.s, Placeholders(template.s)) : Missing(key)) =>
         outcome.value = template.s

\* a call with ignoreMissing that kept a missing {{k}}, found its value
\* missing in the singleBraces pass too, and substituted a present value
C5_Witness ==
  /\ Rendered
  /\ options.ignoreMissing
  /\ outcome.kind = "fulfilled"
  /\ \E k \in DOMAIN escLog : escLog[k].transformed = Undefined
  /\ \E k \in DOMAIN rawLog : rawLog[k].transformed = Undefined
  /\ \E key \in KeysOf(template.s, Placeholders(template.s)) : ~Missing(key)
  /\ outcome.value # template.s

\* the outcome of substituting tpl in data under opts
OutcomeOf(r) == IF r.threw THEN MissingValueError(r.key) ELSE Fulfilled(r.out)
SubstituteOutcome(tpl, dat, opts) == OutcomeOf(Substitute(tpl, dat, opts))

\* the key the callback is handed first: of the first {{key}} if the
\* template has one, else of the first {key}
FirstOf(s, ms) == KeyOf(s, ms[1])
FirstKey(s) ==
  IF Matches(s, 2) # <<>> THEN FirstOf(s, Matches(s, 2)) ELSE FirstOf(s, Matches(s, 1))

\* C6: a transform that returns undefined makes every placeholder missing,
\* its key being in the data or not. The call ends as the call without a
\* transform on data without fields does: rejected with the
\* MissingValueError of the first key when ignoreMissing is unset, the
\* template returned unchanged when it is set.
C6_TransformUndefinedIsMissing ==
  (Rendered /\ options.transform = "undefined") =>
    /\ outcome = SubstituteOutcome(template.s, Obj(NoFields),
                   [ignoreMissing |-> options.ignoreMissing, transform |-> "none"])
    /\ options.ignoreMissing => outcome = Fulfilled(template.s)
    /\ (~options.ignoreMissing /\ RegexTest(1, template.s)) =>
         outcome = MissingValueError(FirstKey(template.s))

\* the transform returned undefined for a key that the data holds
C6_Witness ==
  /\ Rendered
  /\ options.transform = "undefined"
  /\ outcome.kind = "MissingValueError"
  /\ \E k \in DOMAIN AllLog :
       AllLog[k].value # Undefined /\ AllLog[k].transformed = Undefined

\* C7: a validator that returns issues makes the call reject with a
\* SchemaError holding exactly these issues in their order; no placeholder
\* is looked up, the transform is not invoked and no string is returned,
\* for a synchronous and an asynchronous validator and any ignoreMissing.
C7_ValidationFailureStopsCall ==
  (template.t = "string" /\ schema.failing) =>
    /\ escLog = <<>>
    /\ rawLog = <<>>
    /\ safeData = Undefined
    /\ outcome.kind \in {"pending", "SchemaError"}
    /\ outcome.value = <<>>
    /\ pc = "done" => outcome = SchemaError(schema.issues)

\* an asynchronous validator returned two issues for a template with a
\* placeholder, under ignoreMissing and a transform
C7_Witness ==
  /\ pc = "done"
  /\ outcome.kind = "SchemaError"
  /\ Len(outcome.issues) = 2
  /\ schema.async
  /\ options.ignoreMissing
  /\ options.transform # "none"
  /\ RegexTest(1, template.s)

\* C8: a template that is not a string makes the call reject with a
\* TypeError at once: validate is never invoked and the callback never runs,
\* also with a schema that would return issues.
C8_TypeErrorBeforeValidation ==
  template.t # "string" =>
    /\ validateCalls = 0
    /\ escLog = <<>>
    /\ rawLog = <<>>
    /\ pc \in {"start", "done"}
    /\ pc = "start" => outcome = Pending
    /\ pc = "done" => outcome = TypeError

\* the call with a number as template and a schema that returns issues is over
C8_Witness ==
  /\ template.t = "number"
  /\ schema.failing
  /\ pc = "done"
  /\ outcome.kind = "TypeError"

\* C9: a template in which neither pattern matches is returned unchanged
\* and the callback, and with it the transform, never runs.
C9_NoPlaceholderIdentity ==
  (Rendered /\ ~RegexTest(1, template.s) /\ ~RegexTest(2, template.s)) =>
    /\ outcome = Fulfilled(template.s)
    /\ afterEscaped = template.s
    /\ escLog = <<>>
    /\ rawLog = <<>>

\* a template of braces and text without a placeholder was returned under
\* a transform
C9_Witness ==
  /\ Rendered
  /\ Len(template.s) >= 2
  /\ HasBrace(template.s)
  /\ ~RegexTest(1, template.s)
  /\ options.transform = "undefined"
  /\ ~options.ignoreMissing
  /\ outcome.kind = "fulfilled"

\* the walk of the claim: the segments are the texts between the dots, and
\* each segment descends into the field of that name of an object and
\* yields absent from anything else
Dots(path) == {i \in 1..Len(path) : path[i] = "."}
\* the k-th dot, 0 before the first and Len(path) + 1 after the last
NthDot(path, k) ==
  IF k = 0 THEN 0
  ELSE IF k > Cardinality(Dots(path)) THEN Len(path) + 1
  ELSE CHOOSE i \in Dots(path) : Cardinality({j \in Dots(path) : j < i}) = k - 1
RefSegments(path) ==
  [k \in 1..(Cardinality(Dots(path)) + 1) |->
     SubSeq(path, NthDot(path, k - 1) + 1, NthDot(path, k) - 1)]
RefDescend(v, seg) ==
  IF v.t = "object" /\ seg \in DOMAIN v.f THEN v.f[seg] ELSE Undefined
RECURSIVE RefWalkFrom(_, _, _)
RefWalkFrom(v, segs, k) ==
  IF k > Len(segs) THEN v ELSE RefWalkFrom(RefDescend(v, segs[k]), segs, k + 1)
RefWalk(obj, path) == RefWalkFrom(obj, RefSegments(path), 1)

\* C10: getNestedValue is the reference walk over the path split on the
\* dots, a digits-only segment naming the field of that name; it never
\* throws, and a branch missing anywhere yields undefined.
C10_NestedLookupIsReferenceWalk ==
  /\ lkParts = RefSegments(lkPath)
  /\ lkValue # Thrown
  /\ lkResult # Thrown
  /\ getNestedValue(lkObj, lkPath) = RefWalk(lkObj, lkPath)
  /\ lkPc = "loop" => lkValue = RefWalkFrom(lkObj, SubSeq(lkParts, 1, lkIndex - 1), 1)
  /\ lkPc = "returned" => lkResult = RefWalk(lkObj, lkPath)

\* the walk went through three levels, the last by the field named "0"
C10_Witness ==
  /\ lkPc = "returned"
  /\ lkPath = <<"a", ".", "b", ".", "0">>
  /\ lkResult = Str(<<"d", "e", "e", "p">>)

\* C11: a placeholder is missing exactly when its transformed value is
\* undefined. The callback throws exactly for an undefined transformed value
\* with ignoreMissing unset; a transformed value of null, 0, false or the
\* empty string is returned as "null", "0", "false" or "" and a
\* MissingValueError is only ever raised for an undefined one.
C11_OnlyUndefinedIsMissing ==
  Rendered =>
    /\ \A k \in DOMAIN AllLog :
         /\ AllLog[k].threw <=>
              (AllLog[k].transformed = Undefined /\ ~options.ignoreMissing)
         /\ AllLog[k].transformed = Null => AllLog[k].text = <<"n", "u", "l", "l">>
         /\ AllLog[k].transformed = Num(0) => AllLog[k].text = <<"0">>
         /\ AllLog[k].transformed = Bool(FALSE) =>
              AllLog[k].text = <<"f", "a", "l", "s", "e">>
         /\ AllLog[k].transformed = Str(<<>>) => AllLog[k].text = <<>>
         /\ AllLog[k].transformed \in {Null, Num(0), Bool(FALSE), Str(<<>>)} =>
              AllLog[k].text # AllLog[k].placeholder
    /\ outcome.kind = "MissingValueError" =>
         AllLog[Len(AllLog)].transformed = Undefined

\* a call with ignoreMissing unset substituted an empty string and a null
C11_Witness ==
  /\ Rendered
  /\ ~options.ignoreMissing
  /\ outcome = Fulfilled(<<"n", "u", "l", "l">>)
  /\ \E k \in DOMAIN AllLog : AllLog[k].transformed = Str(<<>>)
  /\ \E k \in DOMAIN AllLog : AllLog[k].transformed = Null

\* the outcome of a call with the arguments a when no other call runs
AloneOutcome(a) ==
  IF a.template.t # "string" THEN TypeError
  ELSE IF Validate(a.schema, a.data).hasIssues
  THEN SchemaError(Validate(a.schema, a.data).issues)
  ELSE SubstituteOutcome(a.template.s, Validate(a.schema, a.data).value, a.options)

\* C12: calls interleaved at their awaits do not disturb each other. Every
\* call that is over settled as the same call does when it runs alone, a
\* call that is not over is pending, and the activation of a call holds this
\* call's arguments and nothing of another call: the regular expression of
\* a call that is not inside lines 96-98 has lastIndex 0.
C12_ConcurrentCallsIndependent ==
  \A c \in Calls :
    /\ cpc[c] = "done" => coutcome[c] = AloneOutcome(cargs[c])
    /\ cpc[c] # "done" => coutcome[c] = Pending
    /\ cpc[c] = "start" => frames[c] = NoFrame
    /\ cpc[c] # "start" =>
         /\ frames[c].template = cargs[c].template
         /\ frames[c].schema = cargs[c].schema
         /\ frames[c].data = cargs[c].data
         /\ frames[c].options = cargs[c].options
    /\ cpc[c] # "tested" => frames[c].lastIndex = 0

\* two calls with the same template and schema but different data and
\* options were in flight together and are over, one fulfilled and one
\* rejected
C12_Witness ==
  /\ overlapped
  /\ \A c \in Calls : cpc[c] = "done"
  /\ cargs[1].template = cargs[2].template
  /\ cargs[1].schema = cargs[2].schema
  /\ cargs[1].data # cargs[2].data
  /\ cargs[1].options # cargs[2].options
  /\ coutcome[1].kind = "fulfilled"
  /\ coutcome[2].kind = "MissingValueError"

\* what C13 says of every state, and of every step
ValidatedOnceBeforeLookups ==
  \A c \in Calls :
    cargs[c].template.t = "string" =>
      /\ cvalidateCalls[c] = IF cpc[c] = "start" THEN 0 ELSE 1
      /\ cpc[c] \in {"start", "awaitResult"} => frames[c].validation = NoValidation
      /\ (\/ frames[c].escLog # <<>>
          \/ frames[c].rawLog # <<>>
          \/ frames[c].safeData # Undefined
          \/ coutcome[c].kind \in {"fulfilled", "MissingValueError"}) =>
            /\ cpc[c] \in {"tested", "escaped", "done"}
            /\ frames[c].validation = Validate(cargs[c].schema, cargs[c].data)
            /\ ~cargs[c].schema.failing

SubstitutionUninterrupted ==
  \A c \in Calls :
    /\ frames'[c].escLog # frames[c].escLog => cpc[c] = "tested"
    /\ frames'[c].rawLog # frames[c].rawLog => cpc[c] = "escaped"
    /\ cvalidateCalls'[c] # cvalidateCalls[c] => cpc[c] = "start"
    /\ cpc[c] \in {"tested", "escaped"} =>
         /\ cpc'[c] \in {"escaped", "done"}
         /\ cpc'[c] # cpc[c]
         /\ \A d \in Calls \ {c} :
              /\ cpc'[d] = cpc[d]
              /\ frames'[d] = frames[d]
              /\ coutcome'[d] = coutcome[d]

\* C13: a call with a string template invokes validate exactly once, at its
\* start; nothing is looked up or substituted and the call does not settle
\* with a string or a MissingValueError before the validator's result is
\* there and has no issues; and from the test of line 96 on, every step is a
\* step of this call up to its end: no other call runs in between.
C13_ValidateOnceThenUninterrupted ==
  []ValidatedOnceBeforeLookups /\ [][SubstitutionUninterrupted]_vars

\* a call with an asynchronous validator is between its two replaces while
\* the other call waits for its validator
C13_Witness ==
  /\ cpc[1] = "escaped"
  /\ cargs[1].schema.async
  /\ frames[1].escLog # <<>>
  /\ cvalidateCalls[1] = 1
  /\ cpc[2] = "awaitResult"

\* C14: the placeholders are resolved against what the validator returned,
\* not against the data argument. Every value looked up is the field of the
\* validator's output; under the schema that strips a and defaults and
\* coerces b, the key a (and a.b) is missing whatever the data holds, and b
\* is the coerced string, "d" when the data has no b.
C14_ResolvedAgainstValidatorOutput ==
  Rendered =>
    /\ \A k \in DOMAIN AllLog :
         AllLog[k].value = getNestedValue(validation.value, AllLog[k].key)
    /\ schema.output = "coerced" =>
         /\ \A k \in DOMAIN AllLog :
              /\ AllLog[k].key \in {A, <<"a", ".", "b">>} =>
                   AllLog[k].value = Undefined
              /\ (AllLog[k].key = B /\ B \notin DOMAIN data.f) =>
                   AllLog[k].value = Str(<<"d">>)
              /\ (AllLog[k].key = B /\ B \in DOMAIN data.f) =>
                   AllLog[k].value = Str(String(data.f[B]))
         /\ (template.s = <<"{", "a", "}">> /\ options.transform = "none") =>
              outcome = IF options.ignoreMissing THEN Fulfilled(template.s)
                        ELSE MissingValueError(A)
         /\ (template.s = <<"{", "b", "}">> /\ options.transform = "none"
               /\ B \notin DOMAIN data.f) => outcome = Fulfilled(<<"d">>)

\* {a} was rendered on data that hold a, under the schema that strips it:
\* the call rejected with the MissingValueError of a
C14_Witness ==
  /\ Rendered
  /\ schema.output = "coerced"
  /\ schema.async
  /\ A \in DOMAIN data.f
  /\ template.s = <<"{", "a", "}">>
  /\ outcome = MissingValueError(A)

\* the placeholders of a template in the order of the claim: every {{key}}
\* from left to right, then every {key} from left to right
IsDouble(m) == m.nb = 2
IsSingle(m) == m.nb = 1
ScanOrder(s) ==
  SelectSeq(Placeholders(s), IsDouble) \o SelectSeq(Placeholders(s), IsSingle)
ScanKeys(s) == [k \in DOMAIN ScanOrder(s) |-> KeyOf(s, ScanOrder(s)[k])]
FirstMissingIn(keys) ==
  CHOOSE k \in DOMAIN keys :
    Missing(keys[k]) /\ \A j \in 1..(k - 1) : ~Missing(keys[j])

\* C15: with ignoreMissing unset and a placeholder of the template missing,
\* the call rejects with the MissingValueError of the first missing
\* placeholder in scan order, and the callback (and so the transform) ran
\* for the placeholders up to that one in scan order and for nothing else.
C15_FirstMissingInScanOrder ==
  (/\ Rendered
   /\ ~options.ignoreMissing
   /\ \E k \in DOMAIN ScanKeys(template.s) : Missing(ScanKeys(template.s)[k])) =>
     /\ outcome =
          MissingValueError(ScanKeys(template.s)[FirstMissingIn(ScanKeys(template.s))])
     /\ Len(AllLog) = FirstMissingIn(ScanKeys(template.s))
     /\ \A k \in DOMAIN AllLog : AllLog[k].key = ScanKeys(template.s)[k]

\* C16: every placeholder is handed to the callback at most once in a
\* render: the singleBraces pass runs the callback for the {key}
\* placeholders of the template and not for the {k} inside a {{k}} that the
\* doubleBraces pass handled. Stated for the renders in which the
\* doubleBraces pass inserted no text, where every {{k}} it handled was left
\* in place under ignoreMissing.
C16_PlaceholderProcessedAtMostOnce ==
  (/\ Rendered
   /\ \A k \in DOMAIN escLog : ~escLog[k].threw /\ escLog[k].transformed = Undefined) =>
     /\ Len(escLog) <= Len(SelectSeq(Placeholders(template.s), IsDouble))
     /\ Len(rawLog) <= Len(SelectSeq(Placeholders(template.s), IsSingle))

\* the keys of the claim's grammar: digits, or segments between dots that
\* each start with a letter, $ or _ and go on with word characters, hyphens
\* or $
SegmentOk(seg) ==
  /\ seg # <<>>
  /\ seg[1] \in IdStart
  /\ \A q \in 2..Len(seg) : seg[q] \in IdCont
ClaimKeyOk(key) ==
  /\ key # <<>>
  /\ \/ \A q \in DOMAIN key : key[q] \in Digit
     \/ \A k \in DOMAIN RefSegments(key) : SegmentOk(RefSegments(key)[k])

MalformedGroups ==
  { <<"{", "a", ".", "}">>, <<"{", "a", ".", ".", "b", "}">>,
    <<"{", "a", ".", "-", "b", "}">> }

\* C17: only a key of the claim's grammar makes a brace group a
\* placeholder. The callback is never handed a key with an empty later
\* segment or one that starts with a hyphen, no MissingValueError carries
\* such a key, and the templates {a.}, {a..b} and {a.-b} are returned
\* unchanged without a lookup.
C17_MalformedSegmentsNotPlaceholders ==
  (pc = "done" /\ ~schema.failing) =>
    /\ \A k \in DOMAIN AllLog : ClaimKeyOk(AllLog[k].key)
    /\ outcome.kind = "MissingValueError" => ClaimKeyOk(outcome.key)
    /\ template.s \in MalformedGroups =>
         /\ outcome = Fulfilled(template.s)
         /\ AllLog = <<>>

\* a placeholder read off the text: nb opening braces, a key, nb closing
\* braces, the key being digits or a letter, $ or _ followed by word
\* characters, hyphens, $ and dots
RefKeyOk(key) ==
  /\ key # <<>>
  /\ \/ \A q \in DOMAIN key : key[q] \in Digit
     \/ /\ key[1] \in IdStart
        /\ \A q \in 2..Len(key) : key[q] \in IdCont \cup {"."}
IsRefPlaceholder(str, nb) ==
  /\ Len(str) > 2 * nb
  /\ \A q \in 1..nb : str[q] = "{" /\ str[Len(str) + 1 - q] = "}"
  /\ RefKeyOk(SubSeq(str, nb + 1, Len(str) - nb))
RefEnd(s, i, nb) ==
  IF \E j \in i..Len(s) : IsRefPlaceholder(SubSeq(s, i, j), nb)
  THEN CHOOSE j \in i..Len(s) : IsRefPlaceholder(SubSeq(s, i, j), nb)
  ELSE 0
RECURSIVE RefPlaceholdersFrom(_, _)
RefPlaceholdersFrom(s, i) ==
  IF i > Len(s) THEN <<>>
  ELSE IF RefEnd(s, i, 2) # 0
  THEN <<[from |-> i, to |-> RefEnd(s, i, 2), nb |-> 2]>>
       \o RefPlaceholdersFrom(s, RefEnd(s, i, 2) + 1)
  ELSE IF RefEnd(s, i, 1) # 0
  THEN <<[from |-> i, to |-> RefEnd(s, i, 1), nb |-> 1]>>
       \o RefPlaceholdersFrom(s, RefEnd(s, i, 1) + 1)
  ELSE RefPlaceholdersFrom(s, i + 1)
RefPlaceholders(s) == RefPlaceholdersFrom(s, 1)

\* C18: brace text that is no placeholder is copied and never looked up,
\* whatever ignoreMissing is. The callback is only ever handed a
\* placeholder read off the text, never an empty key, a key with a blank or
\* a key of a digit followed by a non-digit; a template without such a
\* placeholder is returned unchanged with no callback; and a returned string
\* is the template with these placeholders replaced and all other text,
\* braces included, as it was.
C18_NonPlaceholderBracesCopied ==
  (pc = "done" /\ ~schema.failing) =>
    /\ \A k \in DOMAIN escLog : IsRefPlaceholder(escLog[k].placeholder, 2)
    /\ \A k \in DOMAIN rawLog : IsRefPlaceholder(rawLog[k].placeholder, 1)
    /\ \A k \in DOMAIN AllLog :
         /\ AllLog[k].key # <<>>
         /\ \A q \in DOMAIN AllLog[k].key : AllLog[k].key[q] # " "
         /\ AllLog[k].key[1] \in Digit =>
              \A q \in DOMAIN AllLog[k].key : AllLog[k].key[q] \in Digit
    /\ RefPlaceholders(template.s) = <<>> =>
         /\ outcome = Fulfilled(template.s)
         /\ AllLog = <<>>
    /\ outcome.kind = "fulfilled" =>
         outcome.value = Spliced(template.s, RefPlaceholders(template.s))
    /\ outcome.kind = "MissingValueError" =>
         outcome.key \in KeysOf(template.s, RefPlaceholders(template.s))

\* { a } before {1} was rendered with ignoreMissing unset on data that have
\* the fields ' a ' and '1': the blank group is still there
C18_Witness ==
  /\ pc = "done"
  /\ ~options.ignoreMissing
  /\ options.transform = "none"
  /\ template.s = <<"{", " ", "a", " ", "}", "{", "1", "}">>
  /\ <<" ", "a", " ">> \in DOMAIN data.f
  /\ outcome = Fulfilled(<<"{", " ", "a", " ", "}", "n">>)

\* the renderer without the guard: both replaces, always
Unguarded(tpl, dat, opts) ==
  AfterEscapedPass(StringReplace(tpl, 2, dat, opts), dat, opts)

\* C19: the guard of line 96 only saves work. The call settles as the
\* renderer that always runs both replaces does, with the same callbacks in
\* the same order and the same string between the passes; the replace that
\* follows the test starts at the first {{key}} of the template and, unless
\* the callback throws, takes every one.
C19_GuardIsPureOptimization ==
  Rendered =>
    /\ outcome = OutcomeOf(Unguarded(template.s, safeData, options))
    /\ escLog = Unguarded(template.s, safeData, options).escLog
    /\ rawLog = Unguarded(template.s, safeData, options).rawLog
    /\ afterEscaped = Unguarded(template.s, safeData, options).afterEscaped
    /\ Matches(template.s, 2) # <<>> =>
         /\ escLog # <<>>
         /\ escLog[1].key = KeyOf(template.s, Matches(template.s, 2)[1])
         /\ ~escLog[Len(escLog)].threw => Len(escLog) = Len(Matches(template.s, 2))

\* a template with two {{key}} was rendered: the test stopped behind the
\* first, the replace took both
C19_Witness ==
  /\ Rendered
  /\ outcome.kind = "fulfilled"
  /\ Len(Matches(template.s, 2)) = 2
  /\ TestLastIndex(2, template.s, 0) < Matches(template.s, 2)[2].from
  /\ Len(escLog) = 2
  /\ escLog[1].text # escLog[1].placeholder

\* C20: the call rejects with a SchemaError only when the validator returned
\* a list of issues that is not empty; a result whose list of issues is
\* empty is no validation failure.
C20_EmptyIssuesIsNoFailure ==
  /\ outcome.kind = "SchemaError" => outcome.issues # <<>>
  /\ (pc = "done" /\ template.t = "string" /\ validation.issues = <<>>) =>
       outcome.kind # "SchemaError"

UndefinedText == <<"u", "n", "d", "e", "f", "i", "n", "e", "d">>

\* C21: a configured transform is invoked by every callback, also when the
\* lookup found nothing, with the value looked up in safeData and the key
\* as it stands between the braces, and what it returns decides: a
\* returned value other than undefined is substituted (escaped for double
\* braces) and raises no MissingValueError with ignoreMissing unset, so
\* that under the transform `${key}:${value}` every call is fulfilled and
\* an absent value renders as key:undefined. A fulfilled call ran the
\* callback for every {{key}} of the template and every {key} of the
\* string after the first pass.
C21_TransformSeesEveryPlaceholder ==
  (Rendered /\ options.transform # "none") =>
    /\ \A k \in DOMAIN escLog :
         escLog[k].placeholder = <<"{", "{">> \o escLog[k].key \o <<"}", "}">>
    /\ \A k \in DOMAIN rawLog :
         rawLog[k].placeholder = <<"{">> \o rawLog[k].key \o <<"}">>
    /\ \A k \in DOMAIN AllLog :
         /\ AllLog[k].called
         /\ AllLog[k].value = getNestedValue(safeData, AllLog[k].key)
         /\ AllLog[k].transformed =
              ApplyTransform(options.transform, AllLog[k].value, AllLog[k].key)
         /\ AllLog[k].transformed # Undefined => ~AllLog[k].threw
    /\ \A k \in DOMAIN escLog :
         escLog[k].transformed # Undefined =>
           escLog[k].text = htmlEscape(String(escLog[k].transformed))
    /\ \A k \in DOMAIN rawLog :
         rawLog[k].transformed # Undefined =>
           rawLog[k].text = String(rawLog[k].transformed)
    /\ options.transform = "keyed" =>
         /\ outcome.kind = "fulfilled"
         /\ \A k \in DOMAIN AllLog :
              AllLog[k].value = Undefined =>
                AllLog[k].text = AllLog[k].key \o <<":">> \o UndefinedText
    /\ outcome.kind = "fulfilled" =>
         /\ Len(escLog) = Len(Matches(template.s, 2))
         /\ \A k \in DOMAIN escLog :
              escLog[k].key = KeyOf(template.s, Matches(template.s, 2)[k])
         /\ Len(rawLog) = Len(Matches(afterEscaped, 1))
         /\ \A m \in DOMAIN Placeholders(template.s) :
              \E k \in DOMAIN AllLog :
                AllLog[k].key = KeyOf(template.s, Placeholders(template.s)[m])

\* with ignoreMissing unset and the transform `${key}:${value}`, {{a}}{b}
\* was rendered on data without b: b:undefined stands in the result
C21_Witness ==
  /\ Rendered
  /\ ~options.ignoreMissing
  /\ options.transform = "keyed"
  /\ template.s = <<"{", "{", "a", "}", "}", "{", "b", "}">>
  /\ B \notin DOMAIN safeData.f
  /\ outcome.kind = "fulfilled"
  /\ rawLog # <<>>
  /\ rawLog[Len(rawLog)].value = Undefined
  /\ rawLog[Len(rawLog)].text = <<"b", ":">> \o UndefinedText

====
